---- MODULE Spec2Model ----
(***************************************************************************)
(* Dataset state and view pipeline of src/script.js: the CSV parser, the   *)
(* quality calculator, the asynchronous dataset load and the per-view      *)
(* search / pagination state machine with what it renders.                 *)
(*                                                                         *)
(* A JavaScript string is a sequence of one-character strings.  A cell of  *)
(* a Row is a record [isNull, str]: the JavaScript null is Null, a string  *)
(* s is Val(s).  A Row is a function from column name to cell.             *)
(***************************************************************************)
EXTENDS Integers, Sequences, FiniteSets, TLC

(***************************************************************************)
(* Bounds of the model.                                                    *)
(***************************************************************************)
\* Calls of loadDataset that may be in progress at one time.
MaxPending == 2

\* Calls of loadDataset in one behaviour, the one of DOMContentLoaded included.
MaxLoads == 2

\* Longest raw row array handed to calculateStats on its own.
MaxStatRows == 3

\* Most lines, the header line included, of a text handed to parseCSV on its
\* own.
MaxCsvLines == 3

(***************************************************************************)
(* String primitives of JavaScript used by the code.                       *)
(***************************************************************************)
Whitespace == {" ", "\n", "\t", "\r"}

\* String.prototype.toLowerCase, one character.
LowerChar(c) ==
    CASE c = "A" -> "a"
      [] c = "B" -> "b"
      [] c = "I" -> "i"
      [] c = "K" -> "k"
      [] c = "L" -> "l"
      [] c = "N" -> "n"
      [] c = "U" -> "u"
      [] OTHER -> c

\* String.prototype.toUpperCase, one character.
UpperChar(c) ==
    CASE c = "a" -> "A"
      [] c = "b" -> "B"
      [] c = "i" -> "I"
      [] c = "k" -> "K"
      [] c = "l" -> "L"
      [] c = "n" -> "N"
      [] c = "u" -> "U"
      [] OTHER -> c

\* String.prototype.toLowerCase.
ToLowerCase(s) == [i \in 1..Len(s) |-> LowerChar(s[i])]

\* String.prototype.trim: strips leading and trailing whitespace.
Trim(s) ==
    LET keep == {i \in 1..Len(s) : s[i] \notin Whitespace}
    IN  IF keep = {} THEN <<>>
        ELSE LET lo == CHOOSE i \in keep : \A j \in keep : i <= j
                 hi == CHOOSE i \in keep : \A j \in keep : j <= i
             IN  SubSeq(s, lo, hi)

\* String.prototype.split with a one-character separator: the pieces of s
\* between consecutive separators; never empty, "".split(sep) is [""].
Split(s, sep) ==
    LET cuts == {i \in 1..Len(s) : s[i] = sep}
        \* Position of the k-th separator; 0 before the first piece and
        \* Len(s) + 1 after the last.
        Cut(k) == IF k = 0 THEN 0
                  ELSE IF k > Cardinality(cuts) THEN Len(s) + 1
                  ELSE CHOOSE p \in cuts : Cardinality({q \in cuts : q < p}) = k - 1
    IN  [k \in 1..(Cardinality(cuts) + 1) |-> SubSeq(s, Cut(k - 1) + 1, Cut(k) - 1)]

\* String.prototype.includes: t occurs in s as a contiguous substring.
Includes(s, t) ==
    \E i \in 1..(Len(s) + 1) :
        /\ i + Len(t) - 1 <= Len(s)
        /\ \A j \in 1..Len(t) : s[i + j - 1] = t[j]

(***************************************************************************)
(* Rows.                                                                   *)
(***************************************************************************)
Null == [isNull |-> TRUE, str |-> <<>>]
Val(s) == [isNull |-> FALSE, str |-> s]

\* The literal 'null' of line 61.
NullLiteral == <<"n", "u", "l", "l">>

\* Line 61 with the literal compared without regard to case.
CellOfAnyCase(field) ==
    IF Trim(field) = <<>> \/ ToLowerCase(Trim(field)) = NullLiteral
    THEN Null ELSE Val(Trim(field))

\* Line 61: the cell stored for one field of a data line.
CellOf(field) ==
    IF Trim(field) = <<>> \/ Trim(field) = NullLiteral THEN Null ELSE Val(Trim(field))

\* Lines 57-62: the row object after the assignments row[columns[1]], ...,
\* row[columns[n]] of forEach, in this order; a duplicated header keeps the
\* value assigned last.
RECURSIVE RowFrom(_, _, _)
RowFrom(columns, values, n) ==
    IF n = 0 THEN <<>>
    ELSE (columns[n] :> CellOf(values[n])) @@ RowFrom(columns, values, n - 1)

RowOf(columns, values) == RowFrom(columns, values, Len(columns))

\* parseCSV, lines 47-68: the data lines whose field count is that of the
\* header line, each as a row, in the order of the text.
parseCSV(text) ==
    LET lines == Split(Trim(text), "\n")
    IN  IF Len(lines) = 0 THEN <<>>
        ELSE LET raw == Split(lines[1], ",")
                 columns == [i \in 1..Len(raw) |-> ToLowerCase(Trim(raw[i]))]
                 fields == [i \in 1..(Len(lines) - 1) |-> Split(lines[i + 1], ",")]
                 kept == SelectSeq(fields, LAMBDA values : Len(values) = Len(columns))
             IN  [i \in 1..Len(kept) |-> RowOf(columns, kept[i])]

(***************************************************************************)
(* The catalog and the static files it names.                              *)
(***************************************************************************)
\* DATASETS, lines 6-35 (the fields the load reads).
DATASETS ==
    [field |->
        [name |-> "Field Reports",
         rawPath |-> "data/raw/field.csv",
         cleanedPath |-> "data/cleaned/cleaned_field.csv"],
     manufacturing |->
        [name |-> "Manufacturing Data",
         rawPath |-> "data/raw/manufacturing.csv",
         cleanedPath |-> "data/cleaned/cleaned_manufacturing.csv"],
     sales |->
        [name |-> "Sales Data",
         rawPath |-> "data/raw/sales.csv",
         cleanedPath |-> "data/cleaned/cleaned_sales.csv"],
     testing |->
        [name |-> "Testing Data",
         rawPath |-> "data/raw/testing.csv",
         cleanedPath |-> "data/cleaned/cleaned_testing.csv"]]

DatasetKeys == DOMAIN DATASETS

\* The paths the server has a file for; cleaned_manufacturing.csv is missing.
ServedPaths ==
    {"data/raw/field.csv", "data/cleaned/cleaned_field.csv",
     "data/raw/manufacturing.csv",
     "data/raw/sales.csv", "data/cleaned/cleaned_sales.csv",
     "data/raw/testing.csv", "data/cleaned/cleaned_testing.csv"}

\* The files.
\*   field:          "Id,Name\n1,Ann\n2,\n3,NULL\n"      /  "id,name\n1,Ann\n3,NULL"
\*   manufacturing:  "k\nb,a"                            /  (missing)
\*   sales:          "a,b\n"                             /  "a,b"
\*   testing:        "k\nNULL\nb\nNull\nnulls\nnull"     /  "k\nNULL\nb\nNull\nnulls"
FileBody(path) ==
    CASE path = "data/raw/field.csv" ->
            <<"I", "d", ",", "N", "a", "m", "e", "\n",
              "1", ",", "A", "n", "n", "\n",
              "2", ",", "\n",
              "3", ",", "N", "U", "L", "L", "\n">>
      [] path = "data/cleaned/cleaned_field.csv" ->
            <<"i", "d", ",", "n", "a", "m", "e", "\n",
              "1", ",", "A", "n", "n", "\n",
              "3", ",", "N", "U", "L", "L">>
      [] path = "data/raw/manufacturing.csv" ->
            <<"k", "\n", "b", ",", "a">>
      [] path = "data/raw/sales.csv" ->
            <<"a", ",", "b", "\n">>
      [] path = "data/cleaned/cleaned_sales.csv" ->
            <<"a", ",", "b">>
      [] path = "data/raw/testing.csv" ->
            <<"k", "\n", "N", "U", "L", "L", "\n", "b", "\n",
              "N", "u", "l", "l", "\n", "n", "u", "l", "l", "s", "\n",
              "n", "u", "l", "l">>
      [] path = "data/cleaned/cleaned_testing.csv" ->
            <<"k", "\n", "N", "U", "L", "L", "\n", "b", "\n",
              "N", "u", "l", "l", "\n", "n", "u", "l", "l", "s">>

\* The body of the non-OK (404) response for a missing file: "Not found".
NotFoundBody == <<"N", "o", "t", " ", "f", "o", "u", "n", "d">>

\* The body a resolved fetch of path delivers; response.ok is never read.
ResponseBody(path) ==
    IF path \in ServedPaths THEN FileBody(path) ELSE NotFoundBody

\* Lines 252-254 and 257-259 for each entry of the catalog, evaluated once:
\* parseCSV of the body that the fetch of the entry's path delivers.
ParsedRaw ==
    [field |-> parseCSV(ResponseBody(DATASETS.field.rawPath)),
     manufacturing |-> parseCSV(ResponseBody(DATASETS.manufacturing.rawPath)),
     sales |-> parseCSV(ResponseBody(DATASETS.sales.rawPath)),
     testing |-> parseCSV(ResponseBody(DATASETS.testing.rawPath))]

ParsedCleaned ==
    [field |-> parseCSV(ResponseBody(DATASETS.field.cleanedPath)),
     manufacturing |-> parseCSV(ResponseBody(DATASETS.manufacturing.cleanedPath)),
     sales |-> parseCSV(ResponseBody(DATASETS.sales.cleanedPath)),
     testing |-> parseCSV(ResponseBody(DATASETS.testing.cleanedPath))]

\* The rows a load of dataset ds parses from its two responses.
RawRowsOf(ds) == ParsedRaw[ds]
CleanedRowsOf(ds) == ParsedCleaned[ds]

(***************************************************************************)
(* Quality calculator.                                                     *)
(***************************************************************************)
\* Line 85 without the test for the empty string.
IsMissingNullOnly(value) == value.isNull

\* Line 85: value === null || value === ''.
IsMissing(value) == value.isNull \/ value.str = <<>>

\* The sum of the first n entries of a sequence of numbers.
RECURSIVE SumTo(_, _)
SumTo(f, n) == IF n = 0 THEN 0 ELSE f[n] + SumTo(f, n - 1)

SumOver(rows, F(_)) == SumTo([i \in 1..Len(rows) |-> F(rows[i])], Len(rows))

\* Tenths of a percent cut off instead of rounded.
TenthsTruncating(n, d) == (1000 * n) \div d

\* ((n / d) * 100).toFixed(1), in tenths of a percent.
Tenths(n, d) == (2000 * n + d) \div (2 * d)

\* calculateStats, lines 71-123.  Percentages are held in tenths.
calculateStats(raw, cleaned) ==
    LET rawTotal == Len(raw)
        cleanedTotal == Len(cleaned)
        NullsIn(row) == Cardinality({k \in DOMAIN row : IsMissing(row[k])})
        HasNull(row) == IF NullsIn(row) > 0 THEN 1 ELSE 0
        FieldsIn(row) == Cardinality(DOMAIN row)
        rawMissing == SumOver(raw, HasNull)
        rawNulls == SumOver(raw, NullsIn)
        totalFields == SumOver(raw, FieldsIn)
        validFields == totalFields - rawNulls
        quality == IF rawTotal > 0 THEN Tenths(cleanedTotal, rawTotal) ELSE 0
        completeness == IF totalFields > 0 THEN Tenths(validFields, totalFields) ELSE 0
        validity == IF rawTotal > 0 THEN Tenths(rawTotal - rawMissing, rawTotal) ELSE 0
        consistency ==
            IF rawTotal > 0
            THEN Tenths(rawTotal - (rawTotal - cleanedTotal), rawTotal) ELSE 0
    IN  [raw |-> [total |-> rawTotal, missing |-> rawMissing, nulls |-> rawNulls,
                  completeness |-> completeness, validity |-> validity,
                  consistency |-> consistency],
         cleaned |-> [total |-> cleanedTotal, missing |-> 0, nulls |-> 0,
                      completeness |-> 1000, validity |-> 1000,
                      consistency |-> 1000],
         quality |-> quality,
         removed |-> rawTotal - cleanedTotal]

\* The dataStats literal of lines 41-45.
InitialStats ==
    [raw |-> [total |-> 0, missing |-> 0, nulls |-> 0],
     cleaned |-> [total |-> 0, missing |-> 0, nulls |-> 0],
     quality |-> 0]

(***************************************************************************)
(* Search, pagination and rendering, as functions of a ViewState.          *)
(***************************************************************************)
Views == {"raw", "cleaned"}

\* CellMatches with the null test of line 647 left out: String(null) is "null".
CellMatchesStringified(value, searchTerm) ==
    Includes(ToLowerCase(IF value.isNull THEN NullLiteral ELSE value.str),
             searchTerm)

\* Lines 646-649: the callback of some() for one cell.
CellMatches(value, searchTerm) ==
    IF value.isNull THEN FALSE
    ELSE Includes(ToLowerCase(value.str), searchTerm)

\* Lines 645-650: the callback of filter() for one row.
RowMatches(item, searchTerm) ==
    \E k \in DOMAIN item : CellMatches(item[k], searchTerm)

\* Lines 642-651: the new filteredData.
Filtered(sourceData, searchTerm) ==
    IF searchTerm = <<>> THEN sourceData
    ELSE SelectSeq(sourceData, LAMBDA item : RowMatches(item, searchTerm))

\* Math.ceil(n / d) for n >= 0, d > 0.
Ceil(n, d) == (n + d - 1) \div d

\* Lines 668, 684, 695: maxPage of a ViewState.
MaxPage(state) == Ceil(Len(state.filteredData), state.itemsPerPage)

\* Array.prototype.slice(startIndex, endIndex) with 0-based bounds.
Slice(data, startIndex, endIndex) ==
    LET lo == IF startIndex > Len(data) THEN Len(data) ELSE startIndex
        hi == IF endIndex > Len(data) THEN Len(data) ELSE endIndex
    IN  IF hi <= lo THEN <<>> ELSE SubSeq(data, lo + 1, hi)

\* The table body of lines 599-622: the placeholder row, or the page's rows.
NoDataBody == [placeholder |-> TRUE, rows |-> <<>>]

\* RenderedBody with the page taken as a 0-based index.
RenderedBodyZeroBased(state, page) ==
    IF Len(state.filteredData) = 0 THEN NoDataBody
    ELSE LET startIndex == page * state.itemsPerPage
             endIndex == startIndex + state.itemsPerPage
         IN  [placeholder |-> FALSE,
              rows |-> Slice(state.filteredData, startIndex, endIndex)]

RenderedBody(state, page) ==
    IF Len(state.filteredData) = 0 THEN NoDataBody
    ELSE LET startIndex == (page - 1) * state.itemsPerPage
             endIndex == startIndex + state.itemsPerPage
         IN  [placeholder |-> FALSE,
              rows |-> Slice(state.filteredData, startIndex, endIndex)]

\* updatePaginationInfo, lines 693-706.
PaginationInfo(state) ==
    [current |-> state.currentPage,
     max |-> MaxPage(state),
     prevDisabled |-> (state.currentPage = 1),
     nextDisabled |-> (state.currentPage = MaxPage(state))]

\* renderTable, lines 595-625, on the page info: the early return of line
\* 602 leaves it as it was.
RenderedInfo(state, old) ==
    IF Len(state.filteredData) = 0 THEN old ELSE PaginationInfo(state)

\* Line 324: key.charAt(0).toUpperCase() + key.slice(1).
Capitalize(key) ==
    IF key = <<>> THEN key ELSE <<UpperChar(key[1])>> \o SubSeq(key, 2, Len(key))

\* UpdatedHeaders emptying the header row when there is no first row.
UpdatedHeadersClearing(rows, old) ==
    IF Len(rows) = 0 THEN {} ELSE {Capitalize(key) : key \in DOMAIN rows[1]}

\* updateColumnHeaders, lines 315-327: rows[0] undefined leaves the headers.
UpdatedHeaders(rows, old) ==
    IF Len(rows) = 0 THEN old ELSE {Capitalize(key) : key \in DOMAIN rows[1]}

(***************************************************************************)
(* State transitions of one ViewState, as the handlers compute them.       *)
(***************************************************************************)
\* ResetView without line 266 / 268: the page is kept.
ResetViewKeepPage(state, sourceData) ==
    [state EXCEPT !.filteredData = sourceData]

\* Lines 265-268: the reset of one view at the end of a load.
ResetView(state, sourceData) ==
    [state EXCEPT !.filteredData = sourceData, !.currentPage = 1]

\* FilterView filtering what the view shows instead of the source rows.
FilterViewNarrowing(state, sourceData, searchTerm) ==
    [state EXCEPT !.filteredData = Filtered(state.filteredData, searchTerm),
                  !.currentPage = 1]

\* filterData, lines 639-653.
FilterView(state, sourceData, searchTerm) ==
    [state EXCEPT !.filteredData = Filtered(sourceData, searchTerm),
                  !.currentPage = 1]

\* LimitView without lines 582 / 588: the page is kept.
LimitViewKeepPage(state, n) ==
    [state EXCEPT !.itemsPerPage = n]

\* The 'change' listeners of lines 581-591.
LimitView(state, n) ==
    [state EXCEPT !.itemsPerPage = n, !.currentPage = 1]

\* PrevView with >= for > in lines 661 / 677.
PrevViewInclusive(state) ==
    IF state.currentPage >= 1
    THEN [state EXCEPT !.currentPage = state.currentPage - 1]
    ELSE state

\* The prev listeners, lines 660-665 and 676-681.
PrevView(state) ==
    IF state.currentPage > 1
    THEN [state EXCEPT !.currentPage = state.currentPage - 1]
    ELSE state

\* NextView with <= for < in lines 669 / 685.
NextViewInclusive(state) ==
    IF state.currentPage <= MaxPage(state)
    THEN [state EXCEPT !.currentPage = state.currentPage + 1]
    ELSE state

\* The next listeners, lines 667-673 and 683-689.
NextView(state) ==
    IF state.currentPage < MaxPage(state)
    THEN [state EXCEPT !.currentPage = state.currentPage + 1]
    ELSE state

(***************************************************************************)
(* Inputs.                                                                 *)
(***************************************************************************)
\* itemsPerPage of both views at construction, lines 336 and 341.
DefaultItemsPerPage == 50

\* Values of the options of the two limit selects.  The selects are markup
\* outside script.js; small sizes give several pages on short datasets.
PageSizes == {2, DefaultItemsPerPage}

\* The dataset buttons the user clicks.
ClickedKeys == {"field", "manufacturing", "testing"}

\* What the user types in a search box: "" and "Null".
SearchInputs == {<<>>, <<"N", "u", "l", "l">>}

(***************************************************************************)
(* State.                                                                  *)
(***************************************************************************)
VARIABLES
    booted,           \* DOMContentLoaded has run: the listeners are attached
    currentDataset,   \* line 38
    rawData,          \* line 39
    cleanedData,      \* line 40
    dataStats,        \* line 41
    paginationState,  \* line 333
    loads,            \* the calls of loadDataset that have not returned, by slot
    overlays,         \* number of #loading-overlay elements in the body
    searchInput,      \* value of #raw-search and #cleaned-search
    tbody,            \* content of #raw-data-body and #cleaned-data-body
    pageInfo,         \* #*-page-info text and disabled state of #*-prev, #*-next
    headers,          \* the header cells of #*-data-table
    activeButton,     \* the dataset buttons that carry class 'active'
    csvText,          \* the text handed to parseCSV on its own (lines 253, 258)
    metrics,          \* the text of the metric widgets
    begun             \* number of calls of loadDataset so far

vars == <<csvText, booted, currentDataset, rawData, cleanedData, dataStats,
          paginationState, loads, overlays, searchInput, tbody, pageInfo,
          headers, activeButton, metrics, begun>>

Slots == 1..MaxPending

\* A slot no call of loadDataset occupies.  An occupied slot holds the
\* call's position (pc: "raw" and "cleaned" are the awaits of lines 252-253
\* and 257-258, "alert" is the blocking alert of line 311), its argument,
\* and rawData and cleanedData as they were when the call began.
Idle == [pc |-> "idle", ds |-> "", preRaw |-> <<>>, preCleaned |-> <<>>]

Occupied == {i \in Slots : loads[i].pc # "idle"}

\* The calls suspended at an await.
Pending == {i \in Slots : loads[i].pc \in {"raw", "cleaned"}}

\* alert() blocks the event loop until the user dismisses it.
AlertOpen == \E i \in Slots : loads[i].pc = "alert"

\* What the page shows before any script has written to it.
StaticInfo == [current |-> 0, max |-> 0,
               prevDisabled |-> FALSE, nextDisabled |-> FALSE]
StaticHeaders == {<<"#">>}
StaticBody == [placeholder |-> FALSE, rows |-> <<>>]
StaticMetrics == [written |-> FALSE, stats |-> InitialStats, fields |-> 0]

\* Module evaluation, lines 38-45 and 333-344.
Init ==
    /\ csvText = <<>>
    /\ booted = FALSE
    /\ currentDataset = "field"
    /\ rawData = <<>>
    /\ cleanedData = <<>>
    /\ dataStats = InitialStats
    /\ paginationState =
         [v \in Views |-> [currentPage |-> 1,
                           itemsPerPage |-> DefaultItemsPerPage,
                           filteredData |-> <<>>]]
    /\ loads = [i \in Slots |-> Idle]
    /\ overlays = 0
    /\ searchInput = [v \in Views |-> <<>>]
    /\ tbody = [v \in Views |-> StaticBody]
    /\ pageInfo = [v \in Views |-> StaticInfo]
    /\ headers = [v \in Views |-> StaticHeaders]
    /\ activeButton = {}
    /\ metrics = StaticMetrics
    /\ begun = 0

(***************************************************************************)
(* loadDataset, lines 243-287.  The call runs to its first await, and      *)
(* each settled await resumes it up to the next one.                       *)
(***************************************************************************)
\* Lines 245-252: up to the first await.
BeginLoad(datasetName) ==
    LET i == CHOOSE k \in Slots \ Occupied : \A j \in Slots \ Occupied : k <= j
    IN  /\ begun < MaxLoads
        /\ begun' = begun + 1
        /\ currentDataset' = datasetName
        /\ overlays' = overlays + 1
        /\ loads' = [loads EXCEPT ![i] =
                        [pc |-> "raw", ds |-> datasetName,
                         preRaw |-> rawData, preCleaned |-> cleanedData]]

\* Lines 347-357: the DOMContentLoaded listener.
DOMContentLoaded ==
    /\ ~booted
    /\ booted' = TRUE
    /\ tbody' = [v \in Views |->
                    RenderedBody(paginationState[v], paginationState[v].currentPage)]
    /\ pageInfo' = [v \in Views |-> RenderedInfo(paginationState[v], pageInfo[v])]
    /\ BeginLoad("field")
    /\ UNCHANGED <<csvText, rawData, cleanedData, dataStats, paginationState,
                   searchInput, headers, activeButton, metrics>>

\* SelectDataset refusing the click while a call of loadDataset is in progress.
SelectDatasetGuarded(datasetName) ==
    /\ booted /\ ~AlertOpen
    /\ Occupied = {}
    /\ BeginLoad(datasetName)
    /\ UNCHANGED <<csvText, booted, rawData, cleanedData, dataStats, paginationState,
                   searchInput, tbody, pageInfo, headers, activeButton, metrics>>

\* Lines 400-404: a click on a dataset button.
SelectDataset(datasetName) ==
    /\ booted /\ ~AlertOpen
    /\ Occupied # Slots
    /\ BeginLoad(datasetName)
    /\ UNCHANGED <<csvText, booted, rawData, cleanedData, dataStats, paginationState,
                   searchInput, tbody, pageInfo, headers, activeButton, metrics>>

\* Lines 252-257: fetch(dataset.rawPath) and rawResponse.text() resolve; the
\* call runs up to its next await.  The call reads and writes nothing
\* between these two awaits, so they settle in one step.
RawResponse(i) ==
    /\ ~AlertOpen
    /\ loads[i].pc = "raw"
    /\ rawData' = RawRowsOf(loads[i].ds)
    /\ loads' = [loads EXCEPT ![i].pc = "cleaned"]
    /\ UNCHANGED <<csvText, booted, currentDataset, cleanedData, dataStats,
                   paginationState, overlays, searchInput, tbody, pageInfo,
                   headers, activeButton, metrics, begun>>

\* hideLoadingState removing every overlay in the body.
HideLoadingAll(n) == 0

\* hideLoadingState, lines 303-306: removes one overlay when there is one.
HideLoading(n) == IF n > 0 THEN n - 1 ELSE 0

\* updateMetrics, lines 547-573.
UpdatedMetrics(stats, raw, old) ==
    [written |-> TRUE,
     stats |-> stats,
     fields |-> IF Len(raw) > 0 THEN Cardinality(DOMAIN raw[1]) ELSE old.fields]

\* Lines 257-281: fetch(dataset.cleanedPath) and cleanedResponse.text()
\* resolve; the rest of the try block.
CleanedResponse(i) ==
    /\ ~AlertOpen
    /\ loads[i].pc = "cleaned"
    /\ cleanedData' = CleanedRowsOf(loads[i].ds)
    /\ dataStats' = calculateStats(rawData, cleanedData')
    /\ paginationState' =
         [raw |-> ResetView(paginationState.raw, rawData),
          cleaned |-> ResetView(paginationState.cleaned, cleanedData')]
    /\ activeButton' = {currentDataset}
    /\ metrics' = UpdatedMetrics(dataStats', rawData, metrics)
    /\ headers' = [raw |-> UpdatedHeaders(rawData, headers.raw),
                   cleaned |-> UpdatedHeaders(cleanedData', headers.cleaned)]
    /\ tbody' = [v \in Views |-> RenderedBody(paginationState'[v], 1)]
    /\ pageInfo' = [v \in Views |-> RenderedInfo(paginationState'[v], pageInfo[v])]
    /\ overlays' = HideLoading(overlays)
    /\ loads' = [loads EXCEPT ![i] = Idle]
    /\ UNCHANGED <<csvText, booted, currentDataset, rawData, searchInput, begun>>

\* LoadRejected with a retry in place of the alert: the call starts over
\* at its raw fetch and the overlay stays.
LoadRejectedRetrying(i) ==
    /\ ~AlertOpen
    /\ i \in Pending
    /\ loads' = [loads EXCEPT ![i].pc = "raw"]
    /\ UNCHANGED <<csvText, booted, currentDataset, rawData, cleanedData, dataStats,
                   paginationState, overlays, searchInput, tbody, pageInfo,
                   headers, activeButton, metrics, begun>>

\* Lines 283-285 with showErrorState, lines 309-311: the fetch() or the
\* text() the call is suspended at rejects; the call blocks in alert().
LoadRejected(i) ==
    /\ ~AlertOpen
    /\ i \in Pending
    /\ overlays' = HideLoading(overlays)
    /\ loads' = [loads EXCEPT ![i].pc = "alert"]
    /\ UNCHANGED <<csvText, booted, currentDataset, rawData, cleanedData, dataStats,
                   paginationState, searchInput, tbody, pageInfo, headers,
                   activeButton, metrics, begun>>

\* DismissAlert with a retry: the call fetches its raw file again.
DismissAlertRetrying(i) ==
    /\ loads[i].pc = "alert"
    /\ loads' = [loads EXCEPT ![i].pc = "raw"]
    /\ UNCHANGED <<csvText, booted, currentDataset, rawData, cleanedData, dataStats,
                   paginationState, overlays, searchInput, tbody, pageInfo,
                   headers, activeButton, metrics, begun>>

\* Lines 311-312 and 286-287: the user dismisses the alert; the call returns.
DismissAlert(i) ==
    /\ loads[i].pc = "alert"
    /\ loads' = [loads EXCEPT ![i] = Idle]
    /\ UNCHANGED <<csvText, booted, currentDataset, rawData, cleanedData, dataStats,
                   paginationState, overlays, searchInput, tbody, pageInfo,
                   headers, activeButton, metrics, begun>>

(***************************************************************************)
(* The listeners of the two views.                                         *)
(***************************************************************************)
\* Line 640.
SourceData(type) == IF type = "raw" THEN rawData ELSE cleanedData

\* Rerender with one page counter for both views: the other view is sent
\* to page 1 as well.
RerenderSharedPage(type, state, page) ==
    /\ paginationState' =
         [v \in Views |->
             IF v = type THEN state
             ELSE [paginationState[v] EXCEPT !.currentPage = 1]]
    /\ tbody' = [tbody EXCEPT ![type] = RenderedBody(state, page)]
    /\ pageInfo' = [pageInfo EXCEPT ![type] = RenderedInfo(state, pageInfo[type])]

\* What a listener that changed paginationState[type] to state and called
\* renderTable(type, page) leaves behind.
Rerender(type, state, page) ==
    /\ paginationState' = [paginationState EXCEPT ![type] = state]
    /\ tbody' = [tbody EXCEPT ![type] = RenderedBody(state, page)]
    /\ pageInfo' = [pageInfo EXCEPT ![type] = RenderedInfo(state, pageInfo[type])]

\* Lines 629-635: the 'input' listener of a search box.
Search(type, value) ==
    /\ booted /\ ~AlertOpen
    /\ searchInput' = [searchInput EXCEPT ![type] = value]
    /\ Rerender(type,
                FilterView(paginationState[type], SourceData(type), ToLowerCase(value)),
                1)
    /\ UNCHANGED <<csvText, booted, currentDataset, rawData, cleanedData, dataStats,
                   loads, overlays, headers, activeButton, metrics, begun>>

\* Lines 581-591: the 'change' listener of a limit select.
ChangePageSize(type, n) ==
    /\ booted /\ ~AlertOpen
    /\ Rerender(type, LimitView(paginationState[type], n), 1)
    /\ UNCHANGED <<csvText, booted, currentDataset, rawData, cleanedData, dataStats,
                   loads, overlays, searchInput, headers, activeButton, metrics, begun>>

\* Lines 660-665, 676-681: a click on prev.
PageBack(type) ==
    /\ booted /\ ~AlertOpen
    /\ IF PrevView(paginationState[type]) # paginationState[type]
       THEN Rerender(type, PrevView(paginationState[type]),
                     PrevView(paginationState[type]).currentPage)
       ELSE UNCHANGED <<paginationState, tbody, pageInfo>>
    /\ UNCHANGED <<csvText, booted, currentDataset, rawData, cleanedData, dataStats,
                   loads, overlays, searchInput, headers, activeButton, metrics, begun>>

\* Lines 667-673, 683-689: a click on next.
PageForward(type) ==
    /\ booted /\ ~AlertOpen
    /\ IF NextView(paginationState[type]) # paginationState[type]
       THEN Rerender(type, NextView(paginationState[type]),
                     NextView(paginationState[type]).currentPage)
       ELSE UNCHANGED <<paginationState, tbody, pageInfo>>
    /\ UNCHANGED <<csvText, booted, currentDataset, rawData, cleanedData, dataStats,
                   loads, overlays, searchInput, headers, activeButton, metrics, begun>>

Next ==
    \/ DOMContentLoaded
    \/ \E d \in ClickedKeys : SelectDataset(d)
    \/ \E i \in Slots : RawResponse(i)
    \/ \E i \in Slots : CleanedResponse(i)
    \/ \E i \in Slots : LoadRejected(i)
    \/ \E i \in Slots : DismissAlert(i)
    \/ \E v \in Views, t \in SearchInputs : Search(v, t)
    \/ \E v \in Views, n \in PageSizes : ChangePageSize(v, n)
    \/ \E v \in Views : PageBack(v)
    \/ \E v \in Views : PageForward(v)

Spec == Init /\ [][Next]_vars

\* The fetch (or text()) that call i is suspended at settles: it resolves
\* and the call resumes, or it rejects.
Settles(i) == RawResponse(i) \/ CleanedResponse(i) \/ LoadRejected(i)

\* The program where every fetch settles and the user dismisses every
\* alert: a continuation of a settled promise runs as soon as the event
\* loop is free, and alert() holds the event loop until it is dismissed.
FairSpec ==
    /\ Spec
    /\ \A i \in Slots : WF_vars(Settles(i)) /\ WF_vars(DismissAlert(i))

(***************************************************************************)
(* calculateStats on its own: the function applied to arbitrary row        *)
(* arrays, not only to the ones the served files parse to.                 *)
(***************************************************************************)
\* Keys and cell values of the rows: null, a non-empty string and ''.
StatColumns == {<<"a">>, <<"b">>}
StatCells == {Null, Val(<<"1">>), Val(<<>>)}
StatRows == [StatColumns -> StatCells]

\* A row of a cleaned file; calculateStats reads only cleaned.length.
CleanRow == [c \in StatColumns |-> Val(<<"1">>)]

\* The arrays of at most n elements of S.
ArraysUpTo(S, n) == UNION {[1..k -> S] : k \in 0..n}

StatsInit ==
    /\ csvText = <<>>
    /\ booted = FALSE
    /\ currentDataset = "field"
    /\ rawData \in ArraysUpTo(StatRows, MaxStatRows)
    /\ cleanedData \in ArraysUpTo({CleanRow}, MaxStatRows + 1)
    /\ dataStats = InitialStats
    /\ paginationState =
         [v \in Views |-> [currentPage |-> 1,
                           itemsPerPage |-> DefaultItemsPerPage,
                           filteredData |-> <<>>]]
    /\ loads = [i \in Slots |-> Idle]
    /\ overlays = 0
    /\ searchInput = [v \in Views |-> <<>>]
    /\ tbody = [v \in Views |-> StaticBody]
    /\ pageInfo = [v \in Views |-> StaticInfo]
    /\ headers = [v \in Views |-> StaticHeaders]
    /\ activeButton = {}
    /\ metrics = StaticMetrics
    /\ begun = 0

\* Line 262: dataStats = calculateStats(rawData, cleanedData).
ComputeStats ==
    /\ dataStats' = calculateStats(rawData, cleanedData)
    /\ UNCHANGED <<csvText, booted, currentDataset, rawData, cleanedData,
                   paginationState, loads, overlays, searchInput, tbody,
                   pageInfo, headers, activeButton, metrics, begun>>

StatsNext == ComputeStats

StatsSpec == StatsInit /\ [][StatsNext]_vars

(***************************************************************************)
(* parseCSV on its own: the function applied to arbitrary texts, not only  *)
(* to the served files.  Every text is its lines joined by "\n", and every *)
(* line its fields joined by ",".                                          *)
(***************************************************************************)
\* The fields: '', ' B', ' null' and 'Null'.
CsvFields ==
    {<<>>, <<" ", "B">>, <<" ", "n", "u", "l", "l">>, <<"N", "u", "l", "l">>}

\* The pieces parts[1], ..., parts[n] with sep between consecutive ones.
RECURSIVE JoinTo(_, _, _)
JoinTo(parts, sep, n) ==
    IF n = 0 THEN <<>>
    ELSE IF n = 1 THEN parts[1]
    ELSE JoinTo(parts, sep, n - 1) \o <<sep>> \o parts[n]

Join(parts, sep) == JoinTo(parts, sep, Len(parts))

\* Lines of one or two fields.
CsvLines == {Join(fs, ",") : fs \in [1..1 -> CsvFields] \cup [1..2 -> CsvFields]}

CsvTexts ==
    {Join(ls, "\n") : ls \in UNION {[1..k -> CsvLines] : k \in 1..MaxCsvLines}}

\* rawData before the call: the rows of an earlier load.
PriorRows == ParsedRaw.field

ParseInit ==
    /\ csvText \in CsvTexts
    /\ booted = FALSE
    /\ currentDataset = "field"
    /\ rawData = PriorRows
    /\ cleanedData = <<>>
    /\ dataStats = InitialStats
    /\ paginationState =
         [v \in Views |-> [currentPage |-> 1,
                           itemsPerPage |-> DefaultItemsPerPage,
                           filteredData |-> <<>>]]
    /\ loads = [i \in Slots |-> Idle]
    /\ overlays = 0
    /\ searchInput = [v \in Views |-> <<>>]
    /\ tbody = [v \in Views |-> StaticBody]
    /\ pageInfo = [v \in Views |-> StaticInfo]
    /\ headers = [v \in Views |-> StaticHeaders]
    /\ activeButton = {}
    /\ metrics = StaticMetrics
    /\ begun = 0

\* Line 254: rawData = parseCSV(rawText).
ParseText ==
    /\ rawData' = parseCSV(csvText)
    /\ UNCHANGED <<csvText, booted, currentDataset, cleanedData, dataStats,
                   paginationState, loads, overlays, searchInput, tbody,
                   pageInfo, headers, activeButton, metrics, begun>>

ParseNext == ParseText

ParseSpec == ParseInit /\ [][ParseNext]_vars

(***************************************************************************)
(* Vocabulary of the properties.                                           *)
(***************************************************************************)
\* The search term "Null" as typed, and as the listener passes it on.
NullTyped == <<"N", "u", "l", "l">>

\* a is b with zero or more elements left out, the order kept.
RECURSIVE IsSubsequence(_, _)
IsSubsequence(a, b) ==
    IF a = <<>> THEN TRUE
    ELSE IF b = <<>> THEN FALSE
    ELSE IF Head(a) = Head(b) THEN IsSubsequence(Tail(a), Tail(b))
    ELSE IsSubsequence(a, Tail(b))

\* The elements of seq at the positions in S, from position i on, in order.
RECURSIVE PickFrom(_, _, _)
PickFrom(seq, S, i) ==
    IF i > Len(seq) THEN <<>>
    ELSE (IF i \in S THEN <<seq[i]>> ELSE <<>>) \o PickFrom(seq, S, i + 1)

\* Load i completes successfully in this step / fails in this step.
Completes(i) == loads[i].pc = "cleaned" /\ loads'[i].pc = "idle"
Fails(i) == loads[i].pc \in {"raw", "cleaned"} /\ loads'[i].pc = "alert"

\* The application state of script.js, lines 38-45 and 333-344.
AppState == <<currentDataset, rawData, cleanedData, dataStats, paginationState>>

(***************************************************************************)
(* C1.  In every reachable state each view's filteredData is an            *)
(* order-preserving subsequence of the view's current source rows          *)
(* (rawData for raw, cleanedData for cleaned).                             *)
(***************************************************************************)
C1_FilteredWithinSource ==
    \A v \in Views :
        IsSubsequence(paginationState[v].filteredData, SourceData(v))

(***************************************************************************)
(* C2.  When a load has failed (its alert is showing), rawData and         *)
(* cleanedData are the row sequences they were when that load began.       *)
(***************************************************************************)
C2_FailureCommitsNothing ==
    \A i \in Slots :
        loads[i].pc = "alert" =>
            /\ rawData = loads[i].preRaw
            /\ cleanedData = loads[i].preCleaned

(***************************************************************************)
(* C3.  A step of loadDataset that leaves the call suspended at an await   *)
(* (its start, and its resumption after the raw file) changes no           *)
(* application state: currentDataset, rawData, cleanedData, dataStats and  *)
(* both ViewStates stay as they were.                                      *)
(***************************************************************************)
C3_NoMutationBeforeBothFetched ==
    [][(\E i \in Slots : loads'[i] # loads[i] /\ loads'[i].pc \in {"raw", "cleaned"})
          => AppState' = AppState]_vars

(***************************************************************************)
(* C4.  A load begun while another is in progress is neither refused nor   *)
(* does it cancel the other: whenever a call is suspended (and no alert    *)
(* blocks the page), a click on any dataset button can begin a further     *)
(* load, and that step leaves every call already in progress exactly as    *)
(* it was.  The interleaving that ends with the rows of two datasets side  *)
(* by side is the state C4_MixedDatasets.                                  *)
(***************************************************************************)
C4_OverlappingLoadsUnguarded ==
    (booted /\ ~AlertOpen /\ Pending # {} /\ Occupied # Slots /\ begun < MaxLoads) =>
        \A d \in ClickedKeys :
            ENABLED (/\ SelectDataset(d)
                     /\ \A i \in Occupied : loads'[i] = loads[i])

\* No call in progress, and the last load to complete committed its cleaned
\* rows next to the raw rows of another dataset.
C4_MixedDatasets ==
    /\ Occupied = {} /\ overlays = 0
    /\ \E a, b \in ClickedKeys :
        /\ RawRowsOf(a) # RawRowsOf(b)
        /\ CleanedRowsOf(a) # CleanedRowsOf(b)
        /\ rawData = RawRowsOf(a)
        /\ cleanedData = CleanedRowsOf(b)
        /\ paginationState.cleaned.filteredData = CleanedRowsOf(b)
        /\ paginationState.raw.filteredData = RawRowsOf(a)
        /\ dataStats = calculateStats(RawRowsOf(a), CleanedRowsOf(b))

(***************************************************************************)
(* C5.  In every reachable state and for each view,                        *)
(* 1 <= currentPage <= max(1, ceil(filteredData.length / itemsPerPage)).   *)
(***************************************************************************)
C5_PageWithinBounds ==
    \A v \in Views :
        LET state == paginationState[v]
            pages == Ceil(Len(state.filteredData), state.itemsPerPage)
        IN  /\ 1 <= state.currentPage
            /\ state.currentPage <= (IF pages > 1 THEN pages ELSE 1)

\* The cleaned view stands on its last page, which is not the first.
C5_OnLastPage ==
    /\ paginationState.cleaned.currentPage = 2
    /\ MaxPage(paginationState.cleaned) = 2

(***************************************************************************)
(* C6.  The step that completes a load leaves, for both views,             *)
(* filteredData equal to the view's source rows in source order (for the   *)
(* cleaned view the rows this load parsed), currentPage 1 and              *)
(* itemsPerPage as it was.                                                 *)
(***************************************************************************)
C6_LoadResetsBothViews ==
    [][\A i \in Slots : Completes(i) =>
          /\ cleanedData' = CleanedRowsOf(loads[i].ds)
          /\ paginationState'.raw.filteredData = rawData'
          /\ paginationState'.cleaned.filteredData = cleanedData'
          /\ \A v \in Views :
                /\ paginationState'[v].currentPage = 1
                /\ paginationState'[v].itemsPerPage = paginationState[v].itemsPerPage]_vars

\* A completed load has reset the raw view: the box still holds a term
\* that would filter, the view shows every source row, on page 1, with the
\* page size the user chose.
C6_ViewResetByLoad ==
    /\ Occupied = {}
    /\ searchInput.raw = NullTyped
    /\ Len(rawData) = 5
    /\ paginationState.raw =
         [currentPage |-> 1, itemsPerPage |-> 2, filteredData |-> rawData]

(***************************************************************************)
(* C7.  The step that completes a load leaves the search term of each      *)
(* view empty.                                                             *)
(***************************************************************************)
C7_LoadClearsSearch ==
    [][\A i \in Slots : Completes(i) => \A v \in Views : searchInput'[v] = <<>>]_vars

(***************************************************************************)
(* C8.  Search(view, term) with a non-empty term sets filteredData to      *)
(* exactly the source rows, in source order, that have a non-null field    *)
(* whose string contains the term, case ignored, and sets currentPage to   *)
(* 1; a null field matches no term.                                        *)
(***************************************************************************)
C8_ContainsIgnoringCase(str, term) ==
    \E off \in 0..(Len(str) - Len(term)) :
        \A j \in 1..Len(term) : LowerChar(str[off + j]) = LowerChar(term[j])

C8_MatchingRows(source, term) ==
    PickFrom(source,
             {i \in 1..Len(source) :
                \E k \in DOMAIN source[i] :
                    /\ ~source[i][k].isNull
                    /\ C8_ContainsIgnoringCase(source[i][k].str, term)},
             1)

C8_SearchSelectsMatchingRows ==
    [][\A v \in Views, t \in SearchInputs \ {<<>>} :
          Search(v, t) =>
              /\ paginationState'[v].filteredData = C8_MatchingRows(SourceData(v), t)
              /\ paginationState'[v].currentPage = 1]_vars

\* "Null" was searched in the raw view of the field dataset: the row whose
\* name is the string "NULL" is shown, the row whose name is null is not.
C8_NullRowFilteredOut ==
    /\ searchInput.raw = NullTyped
    /\ rawData = RawRowsOf("field")
    /\ rawData[2][<<"n", "a", "m", "e">>].isNull
    /\ paginationState.raw.filteredData = <<rawData[3]>>

(***************************************************************************)
(* C9.  Search(view, "") sets the view's filteredData to the full source   *)
(* row sequence in its order, whatever was searched before.                *)
(***************************************************************************)
C9_EmptySearchRestores ==
    [][\A v \in Views :
          Search(v, <<>>) => paginationState'[v].filteredData = SourceData(v)]_vars

\* A search has narrowed the raw view, and Search(raw, "") restores it.
C9_NarrowedThenRestored ==
    /\ searchInput.raw = NullTyped
    /\ Len(paginationState.raw.filteredData) < Len(rawData)
    /\ ENABLED (/\ Search("raw", <<>>)
                /\ paginationState'.raw.filteredData = rawData)

(***************************************************************************)
(* C10.  PageForward adds 1 to currentPage iff currentPage <               *)
(* ceil(filteredData.length / itemsPerPage), PageBack subtracts 1 iff      *)
(* currentPage > 1; otherwise the ViewState is left as it was.             *)
(***************************************************************************)
C10_PagingMovesOrNoOp ==
    [][\A v \in Views :
          LET state == paginationState[v]
              pages == Ceil(Len(state.filteredData), state.itemsPerPage)
          IN  /\ PageForward(v) =>
                    paginationState'[v] =
                        IF state.currentPage < pages
                        THEN [state EXCEPT !.currentPage = state.currentPage + 1]
                        ELSE state
              /\ PageBack(v) =>
                    paginationState'[v] =
                        IF state.currentPage > 1
                        THEN [state EXCEPT !.currentPage = state.currentPage - 1]
                        ELSE state]_vars

\* The raw view shows 5 rows 2 to a page and stands on page 3 of 3.
C10_OnPageThreeOfThree ==
    /\ Len(paginationState.raw.filteredData) = 5
    /\ paginationState.raw.itemsPerPage = 2
    /\ paginationState.raw.currentPage = 3

(***************************************************************************)
(* C11.  A Search, ChangePageSize, PageForward or PageBack on one view      *)
(* leaves the other view's ViewState as it was, and leaves rawData,         *)
(* cleanedData, dataStats and currentDataset as they were.                  *)
(***************************************************************************)
C11_ViewActionsTouchOwnViewOnly ==
    [][\A v \in Views :
          (\/ \E t \in SearchInputs : Search(v, t)
           \/ \E n \in PageSizes : ChangePageSize(v, n)
           \/ PageBack(v)
           \/ PageForward(v))
          => /\ \A w \in Views \ {v} : paginationState'[w] = paginationState[w]
             /\ rawData' = rawData
             /\ cleanedData' = cleanedData
             /\ dataStats' = dataStats
             /\ currentDataset' = currentDataset]_vars

\* The raw view was searched, resized and paged forward while the cleaned
\* view still stands, on page 2, as its own actions left it.
C11_OnlyRawViewMoved ==
    /\ Occupied = {}
    /\ searchInput.raw = NullTyped
    /\ paginationState.raw.itemsPerPage = 2
    /\ paginationState.raw.currentPage = 2
    /\ searchInput.cleaned = <<>>
    /\ paginationState.cleaned =
         [currentPage |-> 2, itemsPerPage |-> 2, filteredData |-> cleanedData]

(***************************************************************************)
(* C12.  ChangePageSize(view, n) sets the view's itemsPerPage to n and      *)
(* currentPage to 1 and leaves its filteredData as it was, from any page    *)
(* and page size.                                                           *)
(***************************************************************************)
C12_ChangePageSizeResetsPage ==
    [][\A v \in Views, n \in PageSizes :
          ChangePageSize(v, n) =>
              paginationState'[v] =
                  [currentPage |-> 1,
                   itemsPerPage |-> n,
                   filteredData |-> paginationState[v].filteredData]]_vars

\* The raw view stands on page 3 with 2 rows to a page, and a change of the
\* page size to the default takes it to page 1 with its rows kept.
C12_ResizedFromPageThree ==
    /\ paginationState.raw.currentPage = 3
    /\ paginationState.raw.itemsPerPage = 2
    /\ ENABLED (/\ ChangePageSize("raw", DefaultItemsPerPage)
                /\ paginationState'.raw.currentPage = 1
                /\ paginationState'.raw.itemsPerPage = DefaultItemsPerPage
                /\ Len(paginationState'.raw.filteredData) = 5)

(***************************************************************************)
(* C13.  After every transition of a view (a completed load, Search,        *)
(* ChangePageSize, PageForward, PageBack) the pagination info of the view   *)
(* reads "Page {currentPage} of {maxPage}" for the view's new ViewState,    *)
(* prev is disabled exactly when currentPage is 1 and next exactly when     *)
(* currentPage is the last page, an empty filteredData included.            *)
(***************************************************************************)
C13_InfoMatchesViewState ==
    [][\A v \in Views :
          (\/ \E i \in Slots : Completes(i)
           \/ \E t \in SearchInputs : Search(v, t)
           \/ \E n \in PageSizes : ChangePageSize(v, n)
           \/ PageBack(v)
           \/ PageForward(v))
          => LET state == paginationState'[v]
                 pages == Ceil(Len(state.filteredData), state.itemsPerPage)
                 last == IF pages > 1 THEN pages ELSE 1
             IN  pageInfo'[v] =
                     [current |-> state.currentPage,
                      max |-> pages,
                      prevDisabled |-> (state.currentPage = 1),
                      nextDisabled |-> (state.currentPage = last)]]_vars

(***************************************************************************)
(* C14.  Once the page is set up, the rows displayed for a view are the     *)
(* elements of its filteredData at the indices                              *)
(* [(currentPage-1)*itemsPerPage, currentPage*itemsPerPage), clipped to     *)
(* the length, in order; an empty filteredData displays the single          *)
(* "no data" placeholder row.                                               *)
(***************************************************************************)
C14_DisplayIsCurrentPage ==
    booted =>
        \A v \in Views :
            LET state == paginationState[v]
                n == Len(state.filteredData)
                lo == (state.currentPage - 1) * state.itemsPerPage
                hi == state.currentPage * state.itemsPerPage
            IN  IF n = 0
                THEN tbody[v].placeholder /\ tbody[v].rows = <<>>
                ELSE /\ ~tbody[v].placeholder
                     /\ tbody[v].rows =
                          PickFrom(state.filteredData,
                                   {i \in 1..n : lo < i /\ i <= hi}, 1)

\* The raw view shows page 3 of 5 rows, 2 to a page: the fifth row alone.
C14_LastPageShowsRemainder ==
    /\ Len(rawData) = 5
    /\ paginationState.raw.currentPage = 3
    /\ tbody.raw = [placeholder |-> FALSE, rows |-> <<rawData[5]>>]

(***************************************************************************)
(* C15.  The step that completes a load leaves, for each view whose source  *)
(* rows are not empty, one header cell per key of the first source row     *)
(* (the key with its first letter in upper case), and leaves the headers    *)
(* of a view whose source rows are empty as they were.                      *)
(***************************************************************************)
C15_HeadersFromFirstSourceRow ==
    [][\A i \in Slots : Completes(i) =>
          \A v \in Views :
              LET source == IF v = "raw" THEN rawData' ELSE cleanedData'
              IN  IF Len(source) = 0
                  THEN headers'[v] = headers[v]
                  ELSE /\ Cardinality(headers'[v]) = Cardinality(DOMAIN source[1])
                       /\ \A key \in DOMAIN source[1] :
                             \E h \in headers'[v] :
                                 /\ Len(h) = Len(key)
                                 /\ \A j \in 1..Len(key) :
                                       h[j] = IF j = 1 THEN UpperChar(key[j]) ELSE key[j]]_vars

\* The manufacturing dataset, with no parsed rows, was loaded after the
\* field dataset: both tables still carry the headers of field.
C15_StaleHeaders ==
    /\ Occupied = {}
    /\ activeButton = {"manufacturing"}
    /\ rawData = <<>> /\ cleanedData = <<>>
    /\ headers = [v \in Views |-> {<<"I", "d">>, <<"N", "a", "m", "e">>}]

(***************************************************************************)
(* C16.  A load one of whose files is missing (the fetch resolves with a    *)
(* non-OK response) does not complete: no load that completes and commits   *)
(* parsed rows has fetched a path the server has no file for.               *)
(***************************************************************************)
C16_MissingFileFailsLoad ==
    [][\A i \in Slots : Completes(i) =>
          /\ DATASETS[loads[i].ds].rawPath \in ServedPaths
          /\ DATASETS[loads[i].ds].cleanedPath \in ServedPaths]_vars

(***************************************************************************)
(* C17.  A load that fails raises exactly one alert, and once its alert is  *)
(* up the call does nothing but return: it issues no further fetch (it      *)
(* never goes on to the cleaned file, nor back to the raw file), and no     *)
(* call of loadDataset is begun on its behalf.                              *)
(***************************************************************************)
C17_OneAlertNoRetry ==
    [][/\ \A i \in Slots :
            Fails(i) => /\ ~AlertOpen
                        /\ {j \in Slots : loads'[j].pc = "alert"} = {i}
       /\ \A i \in Slots :
            loads[i].pc = "alert" =>
                /\ loads'[i] = loads[i] \/ loads'[i] = Idle
                /\ begun' = begun
                /\ \A j \in Slots \ {i} : loads'[j] = loads[j]]_vars

\* The load of DOMContentLoaded has failed at its raw fetch: its alert is
\* up, the overlay is gone and no rows were ever parsed.
C17_BootLoadFailedAtRawFetch ==
    /\ begun = 1
    /\ loads[1].pc = "alert"
    /\ overlays = 0
    /\ rawData = <<>>

(***************************************************************************)
(* C18.  When every fetch settles, a call of loadDataset suspended at a     *)
(* fetch eventually leaves the loading state: it completes, having          *)
(* rendered both tables and removed its overlay, or it fails, having        *)
(* removed its overlay and raised the alert.  Nothing but the settling of   *)
(* its fetch moves a suspended call: there is no timeout.                   *)
(***************************************************************************)
C18_LoadLeavesLoadingState ==
    /\ \A i \in Slots :
          (loads[i].pc \in {"raw", "cleaned"}) ~> (loads[i].pc \in {"idle", "alert"})
    /\ [][\A i \in Slots :
            /\ (loads[i].pc \in {"raw", "cleaned"} /\ loads'[i] # loads[i])
                  => Settles(i)
            /\ Completes(i) =>
                  /\ overlays' = overlays - 1
                  /\ \A v \in Views :
                        tbody'[v].placeholder = (paginationState'[v].filteredData = <<>>)
            /\ Fails(i) => overlays' = overlays - 1 /\ AlertOpen']_vars

\* Two loads have run and both have left the loading state with the
\* tables rendered: no call is suspended and no overlay is left.
C18_BothLoadsLeftLoading ==
    /\ begun >= 2
    /\ Occupied = {}
    /\ overlays = 0
    /\ ~tbody.raw.placeholder /\ ~tbody.cleaned.placeholder

\* dataStats holds a result of calculateStats (the literal of lines 41-45
\* has no field removed).
StatsComputed == "removed" \in DOMAIN dataStats

\* q, in tenths of a percent, is n / d * 100 rounded to one decimal digit,
\* and 0 when d is 0.
IsPercentOf(q, n, d) ==
    IF d = 0 THEN q = 0
    ELSE /\ 2 * (q * d - 1000 * n) <= d
         /\ 2 * (1000 * n - q * d) <= d

(***************************************************************************)
(* C19: for every pair of row arrays, calculateStats returns removed =     *)
(* raw.total - cleaned.total, quality = cleaned.total / raw.total * 100    *)
(* as a percentage of one decimal digit (0 when raw.total is 0), and       *)
(* raw.consistency with the numeric value of quality.                      *)
(***************************************************************************)
C19_RemovedQualityConsistency ==
    StatsComputed =>
        /\ dataStats.raw.total = Len(rawData)
        /\ dataStats.cleaned.total = Len(cleanedData)
        /\ dataStats.removed = Len(rawData) - Len(cleanedData)
        /\ IsPercentOf(dataStats.quality, Len(cleanedData), Len(rawData))
        /\ dataStats.raw.consistency = dataStats.quality

\* Three raw rows of which two were kept: quality 66.7 and one removed.
C19_TwoOfThreeKept ==
    /\ StatsComputed
    /\ Len(rawData) = 3 /\ Len(cleanedData) = 2
    /\ dataStats.quality = 667
    /\ dataStats.raw.consistency = 667
    /\ dataStats.removed = 1

(***************************************************************************)
(* C20: for every raw row array, raw.missing is the number of rows with    *)
(* at least one null or empty field, raw.nulls the number of null or       *)
(* empty cells, validity (rawTotal - rawMissing) / rawTotal * 100 and      *)
(* completeness non-null cells / all cells * 100, as percentages of one    *)
(* decimal digit, each 0 when its denominator is 0; so raw.missing is at   *)
(* most raw.total and at most raw.nulls.                                   *)
(***************************************************************************)
C20_MissingNullsValidityCompleteness ==
    StatsComputed =>
        LET cells == {c \in (1..Len(rawData)) \X StatColumns :
                         c[2] \in DOMAIN rawData[c[1]]}
            empty == {c \in cells : \/ rawData[c[1]][c[2]].isNull
                                    \/ rawData[c[1]][c[2]].str = <<>>}
            incomplete == {c[1] : c \in empty}
        IN  /\ dataStats.raw.missing = Cardinality(incomplete)
            /\ dataStats.raw.nulls = Cardinality(empty)
            /\ IsPercentOf(dataStats.raw.validity,
                           Len(rawData) - Cardinality(incomplete), Len(rawData))
            /\ IsPercentOf(dataStats.raw.completeness,
                           Cardinality(cells) - Cardinality(empty),
                           Cardinality(cells))
            /\ dataStats.raw.missing <= dataStats.raw.total
            /\ dataStats.raw.missing <= dataStats.raw.nulls

\* A row with two empty cells, one of them '', is counted once as missing
\* and twice in nulls; the other row is complete.
C20_RowCountedOnce ==
    /\ StatsComputed
    /\ Len(rawData) = 2
    /\ rawData[1] = [c \in StatColumns |-> IF c = <<"a">> THEN Null ELSE Val(<<>>)]
    /\ rawData[2] = CleanRow
    /\ dataStats.raw.missing = 1
    /\ dataStats.raw.nulls = 2
    /\ dataStats.raw.validity = 500
    /\ dataStats.raw.completeness = 500

(***************************************************************************)
(* C21: parseCSV returns, in the order of the lines, one row for each data *)
(* line that has as many comma-separated fields as the header line and     *)
(* drops every other line; in each row every header name (trimmed and      *)
(* lower-cased) maps to the trimmed field of its column, the last column    *)
(* of that name when the name is repeated, or to null when the trimmed      *)
(* field is '' or exactly 'null'; a text without data lines gives the       *)
(* empty sequence.                                                          *)
(***************************************************************************)
C21_ParseCSVRows ==
    [][ParseText =>
        LET lines == Split(Trim(csvText), "\n")
            names == [c \in 1..Len(Split(lines[1], ",")) |->
                         ToLowerCase(Trim(Split(lines[1], ",")[c]))]
            kept == {i \in 2..Len(lines) : Len(Split(lines[i], ",")) = Len(names)}
        IN  /\ Len(rawData') = Cardinality(kept)
            /\ Len(lines) = 1 => rawData' = <<>>
            /\ \A i \in kept :
                  LET row == rawData'[Cardinality({j \in kept : j <= i})]
                  IN  /\ DOMAIN row = {names[c] : c \in 1..Len(names)}
                      /\ \A c \in 1..Len(names) :
                            (\A d \in (c + 1)..Len(names) : names[d] # names[c])
                            => LET v == Trim(Split(lines[i], ",")[c])
                               IN  row[names[c]] =
                                     IF v = <<>> \/ v = <<"n", "u", "l", "l">>
                                     THEN [isNull |-> TRUE, str |-> <<>>]
                                     ELSE [isNull |-> FALSE, str |-> v]]_vars

\* "Null, B\n null,Null\n B" has been parsed: one row, with null under the
\* key 'null' and the string 'Null' under 'b'; the line ' B' was dropped.
C21_ParsedNullAndShortLine ==
    /\ csvText = <<"N", "u", "l", "l", ",", " ", "B", "\n",
                   " ", "n", "u", "l", "l", ",", "N", "u", "l", "l", "\n",
                   " ", "B">>
    /\ rawData = << (<<"n", "u", "l", "l">> :> Null)
                    @@ (<<"b">> :> Val(<<"N", "u", "l", "l">>)) >>

\* stats agrees with calculateStats(raw, cleaned) on every field it has (the
\* literal of lines 41-45 has fewer fields than a computed result).
StatsDescribe(stats, raw, cleaned) ==
    LET expected == calculateStats(raw, cleaned)
    IN  /\ \A f \in DOMAIN stats.raw : stats.raw[f] = expected.raw[f]
        /\ \A f \in DOMAIN stats.cleaned : stats.cleaned[f] = expected.cleaned[f]
        /\ stats.quality = expected.quality

(***************************************************************************)
(* C22: whenever no call of loadDataset is in progress, dataStats is       *)
(* calculateStats of the rawData and cleanedData currently held.           *)
(***************************************************************************)
C22_StatsDescribeHeldRows ==
    Occupied = {} => StatsDescribe(dataStats, rawData, cleanedData)

(***************************************************************************)
(* C23: whenever no call of loadDataset is in progress and a load has      *)
(* completed, currentDataset and the button marked active name the dataset *)
(* whose files rawData and cleanedData were parsed from.                   *)
(***************************************************************************)
C23_CurrentDatasetNamesHeldRows ==
    (Occupied = {} /\ activeButton # {}) =>
        /\ activeButton = {currentDataset}
        /\ rawData = RawRowsOf(currentDataset)
        /\ cleanedData = CleanedRowsOf(currentDataset)

(***************************************************************************)
(* C24: the number of loading overlays in the body is always the number of *)
(* calls of loadDataset suspended at a fetch; none is left when no call is *)
(* suspended, and one is present while any is.                             *)
(***************************************************************************)
C24_OverlaysCountPendingLoads ==
    /\ overlays = Cardinality(Pending)
    /\ Pending = {} => overlays = 0
    /\ Pending # {} => overlays > 0

\* Of two overlapping loads one has failed and shows its alert, with its
\* overlay removed; the overlay of the other, still suspended, is present.
C24_OneFailedOneSuspended ==
    /\ \E i, j \in Slots : loads[i].pc = "alert" /\ j \in Pending
    /\ overlays = 1

====
